---- MODULE Spec2Model ----
(***************************************************************************)
(* Model of app/aws-lambda/lambda_function.py: the click-log ingestion     *)
(* handler, the /update-lead dispatcher and the click-to-lead matcher,     *)
(* running as concurrent Lambda invocations over one DynamoDB table whose  *)
(* primary key is (pk = "click", expires_at).                              *)
(*                                                                         *)
(* Time is counted in ticks; TicksPerSec ticks make one second, so that    *)
(* int(timestamp) truncates and datetime.now().timestamp() does not.       *)
(***************************************************************************)
EXTENDS Integers, Sequences, FiniteSets, TLC

\* ---------------------------------------------------------------- bounds
\* ticks of the clock per second
TicksPerSec == 2
\* CLICK_LOG_TTL_MINUTES, set through the environment; here in seconds
CLICK_LOG_TTL == 1
\* invocation slots of SpecRace
NumProcs == 2
\* length of the click history of SpecClicks
MaxClicks == 2

\* the clock stops once an entry written in second 0 can be purged
MaxTime == (CLICK_LOG_TTL + 1) * TicksPerSec

Procs == 1..NumProcs

\* ---------------------------------------------------------------- values
\* Python None (a DynamoDB NULL attribute) and a missing attribute
None == "None"
ABSENT == "ABSENT"

\* services.GoogleAdsService.ConversionType: the member names
MESSAGE_RECEIVED == "MESSAGE_RECEIVED"
ConversionType == {MESSAGE_RECEIVED, "QUALIFIED"}

\* str.upper() on the conversion_type query parameter
Upper(s) ==
    CASE s = "message_received" -> "MESSAGE_RECEIVED"
      [] s = "qualified" -> "QUALIFIED"
      [] s = "bogus" -> "BOGUS"
      [] OTHER -> s

\* click-beacon bodies: json.loads(event["body"])
Bodies ==
    { [gclid |-> "abc", gbraid |-> None, page_path |-> "/p"],
      [gclid |-> None, gbraid |-> "xyz", page_path |-> "/q"],
      [gclid |-> None, gbraid |-> None, page_path |-> "/p"] }

\* /update-lead events: the three query parameters and the two lead-id
\* fields of the decoded form payload (0 = the field is not in the payload)
Events ==
    { [conversion_type |-> c, is_adjustment |-> a, is_manual |-> m,
       add_id |-> p[1], status_id |-> p[2]] :
        c \in {"message_received", "qualified", "bogus"},
        a \in {"True", "False"},
        m \in {"True", "False"},
        p \in {<<42, 0>>, <<0, 7>>, <<43, 7>>} }

\* events that lambda_handler routes to update_lead_handler
MatchEvents ==
    { e \in Events : /\ e.conversion_type = "message_received"
                     /\ e.is_adjustment = "False"
                     /\ e.is_manual = "False"
                     /\ e.add_id # 0 }

VARIABLES
    now,        \* wall clock, in ticks
    table,      \* click_log_table: sort key (expires_at) -> item
    lastClick,  \* response of the last click_log_handler call
    clicks,     \* history of click_log_handler calls (kept by SpecClicks)
    inv         \* per invocation slot: position, locals, effects, response

vars == <<now, table, lastClick, clicks, inv>>

\* ---------------------------------------------------------------- helpers
\* int(datetime.timestamp()): whole seconds of a tick count
IntTimestamp(t) == t \div TicksPerSec

NoResponse == [statusCode |-> 0, message |-> ""]
\* a handler that falls off its end returns Python None
NoneResponse == [statusCode |-> -1, message |-> "None"]
Response(code, msg) == [statusCode |-> code, message |-> msg]

NoEvent ==
    [conversion_type |-> "", is_adjustment |-> "", is_manual |-> "",
     add_id |-> 0, status_id |-> 0]

\* an item of the table: its attributes, and `claims`, the number of
\* update_item calls that have written matched = true to this stored item
NoItem ==
    [page_path |-> ABSENT, gclid |-> ABSENT, gbraid |-> ABSENT,
     created_at |-> -1, expires_at |-> -1, matched |-> FALSE, claims |-> 0]

\* datetime.now().timestamp() <= items[0]["expires_at"]
Unexpired(t, item) == t <= item.expires_at * TicksPerSec

\* one external call made by an invocation: the operation, its arguments,
\* whether it succeeded, and for a call made for a click-log item whether
\* the item had expired when the call was made
Call(op, lead, source, item, ok) ==
    [op |-> op, lead_id |-> lead, source |-> source,
     gclid |-> item.gclid, gbraid |-> item.gbraid,
     page_path |-> item.page_path, key |-> item.expires_at,
     late |-> item.expires_at >= 0 /\ ~Unexpired(now, item), ok |-> ok]

IdleInv ==
    [pc |-> "idle", event |-> NoEvent, path |-> "", lead_id |-> 0,
     items |-> <<>>, response |-> NoResponse, trace |-> <<>>]

Init ==
    /\ now = 0
    /\ table = <<>>
    /\ lastClick = [has_id |-> FALSE, response |-> NoResponse]
    /\ clicks = <<>>
    /\ inv = [i \in Procs |-> IdleInv]

\* ---------------------------------------------------------------- the store
\* put_item: the item replaces whatever is stored under its primary key
PutItem(t, item) ==
    [k \in DOMAIN t \cup {item.expires_at} |->
        IF k = item.expires_at THEN item ELSE t[k]]

\* update_item SET matched = :matched, without a ConditionExpression: it
\* writes the attribute whatever its value, and creates the item when no
\* item has the key
UpdateItem(t, k) ==
    IF k \in DOMAIN t
    THEN [t EXCEPT ![k].matched = TRUE, ![k].claims = @ + 1]
    ELSE PutItem(t, [NoItem EXCEPT !.expires_at = k, !.matched = TRUE,
                                   !.claims = 1])

MaxKey(t) == CHOOSE k \in DOMAIN t : \A j \in DOMAIN t : j <= k

\* query(pk = "click", FilterExpression matched = False,
\* ScanIndexForward=False, Limit=1): Limit bounds the items read, in
\* descending sort-key order, and the filter applies to what was read
Query(t) ==
    IF DOMAIN t = {} THEN <<>>
    ELSE IF t[MaxKey(t)].matched = FALSE THEN <<t[MaxKey(t)]>> ELSE <<>>

\* the store's TTL expiry deletes an item some time after its expires_at
Purge(k) ==
    /\ k \in DOMAIN table
    /\ IntTimestamp(now) > k
    /\ table' = [j \in DOMAIN table \ {k} |-> table[j]]
    /\ UNCHANGED <<now, lastClick, clicks, inv>>

Tick ==
    /\ now < MaxTime
    /\ now' = now + 1
    /\ UNCHANGED <<table, lastClick, clicks, inv>>

\* ---------------------------------------------------------------- clicks
RaisedResponse == [statusCode |-> -2, message |-> "raised"]

\* the item persist_clicklog_to_db builds for a body at the current time
ClickItem(body) ==
    [page_path |-> body.page_path,
     gclid |-> body.gclid,
     gbraid |-> body.gbraid,
     created_at |-> IntTimestamp(now),
     expires_at |-> IntTimestamp(now + CLICK_LOG_TTL * TicksPerSec),
     matched |-> FALSE,
     claims |-> 0]

persist_clicklog_to_db(body) ==
    \E outcome \in {"ok", "RuntimeError", "ClientError"} :
        /\ IF outcome = "ok"
           THEN /\ table' = PutItem(table, ClickItem(body))
                /\ lastClick' =
                     [has_id |-> TRUE,
                      response |-> Response(200, "Click log persisted successfully.")]
           ELSE /\ table' = table
                /\ lastClick' =
                     [has_id |-> TRUE,
                      response |->
                        IF outcome = "RuntimeError"
                        THEN Response(500, "Something went wrong while persisting the click log.")
                        ELSE RaisedResponse]

\* click_log_handler without the test for a click identifier
click_log_handler_unvalidated(body) ==
    /\ persist_clicklog_to_db(body)
    /\ UNCHANGED <<now, inv>>

click_log_handler(body) ==
    /\ IF body.gclid = None /\ body.gbraid = None
       THEN /\ lastClick' =
                 [has_id |-> FALSE,
                  response |-> Response(400, "Missing required parameter gclid and gbraid")]
            /\ UNCHANGED table
       ELSE persist_clicklog_to_db(body)
    /\ UNCHANGED <<now, inv>>

\* a click_log_handler call entered in the history
LoggedClick(body) ==
    /\ Len(clicks) < MaxClicks
    /\ click_log_handler(body)
    /\ clicks' = Append(clicks, [body |-> body, response |-> lastClick'.response])

\* ---------------------------------------------------------------- dispatch
\* payload["leads[status][0][id]"] and payload["leads[add][0][id]"]; a
\* result of 0 stands for the KeyError of a payload without the field
extract_lead_id(event) == event.status_id
extract_incoming_lead_id(event) == event.add_id

\* Route with the MESSAGE_RECEIVED test taken before the adjustment test
RouteMessageFirst(conversion_type, is_conversion_adjustment, is_manual_import) ==
    IF conversion_type = MESSAGE_RECEIVED
    THEN IF is_manual_import THEN "ManualUploadPath" ELSE "MatchedLeadPath"
    ELSE IF is_conversion_adjustment THEN "AdjustmentPath"
         ELSE "DirectUploadPath"

\* the handler lambda_handler returns through, for a conversion type of the
\* enumeration and the two parsed flags
Route(conversion_type, is_conversion_adjustment, is_manual_import) ==
    IF is_conversion_adjustment THEN "AdjustmentPath"
    ELSE IF conversion_type = MESSAGE_RECEIVED
         THEN IF is_manual_import THEN "ManualUploadPath"
              ELSE "MatchedLeadPath"
         ELSE "DirectUploadPath"

\* Entry with the manual and direct uploads sent through the matcher
EntryThroughMatcher(path) ==
    CASE path = "AdjustmentPath" -> "upload_conversion_adjustment_handler"
      [] OTHER -> "update_lead_handler"

\* the first position of each path's handler
Entry(path) ==
    CASE path = "AdjustmentPath" -> "upload_conversion_adjustment_handler"
      [] path = "MatchedLeadPath" -> "update_lead_handler"
      [] OTHER -> "upload_conversion_handler"

Done(i) == inv[i].pc \in {"idle", "returned", "raised"}

Return(i, response) ==
    [inv[i] EXCEPT !.pc = "returned", !.response = response]
ReturnAfter(i, call, response) ==
    [inv[i] EXCEPT !.pc = "returned", !.response = response,
                   !.trace = Append(@, call)]
Raise(i) == [inv[i] EXCEPT !.pc = "raised"]
RaiseAfter(i, call) ==
    [inv[i] EXCEPT !.pc = "raised", !.trace = Append(@, call)]

\* an invocation about to call the handler of a path; the manual path
\* extracts the lead id before the call
Enter(event, path) ==
    LET fresh == [IdleInv EXCEPT !.event = event, !.path = path]
    IN  IF path = "ManualUploadPath"
        THEN IF extract_incoming_lead_id(event) = 0
             THEN [fresh EXCEPT !.pc = "raised"]
             ELSE [fresh EXCEPT !.pc = Entry(path),
                                !.lead_id = extract_incoming_lead_id(event)]
        ELSE [fresh EXCEPT !.pc = Entry(path)]

\* Dispatch without the lookup of the name in ConversionType
DispatchUnchecked(event) ==
    Enter(event, Route(Upper(event.conversion_type),
                       event.is_adjustment = "True",
                       event.is_manual = "True"))

\* lambda_handler for POST /update-lead: the lookup of the conversion type
\* by name raises for a name outside the enumeration, before the flags are
\* read; then the path is selected
Dispatch(event) ==
    LET key == Upper(event.conversion_type)
    IN  IF key \notin ConversionType
        THEN [IdleInv EXCEPT !.event = event, !.pc = "raised"]
        ELSE Enter(event, Route(key, event.is_adjustment = "True",
                                event.is_manual = "True"))

lambda_handler(i, event) ==
    /\ Done(i)
    /\ inv' = [inv EXCEPT ![i] = Dispatch(event)]
    /\ UNCHANGED <<now, table, lastClick, clicks>>

upload_conversion_adjustment_handler(i) ==
    /\ inv[i].pc = "upload_conversion_adjustment_handler"
    /\ LET lead_id == extract_incoming_lead_id(inv[i].event)
       IN  IF lead_id = 0
           THEN inv' = [inv EXCEPT ![i] = Raise(i)]
           ELSE \E ok \in BOOLEAN :
                  inv' = [inv EXCEPT ![i] =
                    ReturnAfter(i, Call("ads_adjustment", lead_id, "", NoItem, ok),
                      IF ok
                      THEN Response(200, "Conversion adjustment uploaded successfully.")
                      ELSE Response(500, "Something went wrong while uploading the click conversion adjustment."))]
    /\ UNCHANGED <<now, table, lastClick, clicks>>

\* kommo_service.construct_raw_lead then upload_offline_conversion, as the
\* calls appended to a trace: the upload is not made when the read raises
UploadCalls(lead_id, item, outcome) ==
    IF outcome = "crm_read_failed"
    THEN <<Call("crm_read", lead_id, "", item, FALSE)>>
    ELSE <<Call("crm_read", lead_id, "", item, TRUE),
           Call("ads_upload", lead_id, "", item, outcome = "ok")>>

UploadOutcomes == {"ok", "crm_read_failed", "ads_upload_failed"}

upload_conversion_handler(i) ==
    /\ inv[i].pc = "upload_conversion_handler"
    /\ LET lead_id == IF inv[i].lead_id = 0
                      THEN extract_lead_id(inv[i].event)
                      ELSE inv[i].lead_id
       IN  IF lead_id = 0
           THEN inv' = [inv EXCEPT ![i] = Raise(i)]
           ELSE \E outcome \in UploadOutcomes :
                  inv' = [inv EXCEPT ![i] =
                    [inv[i] EXCEPT
                       !.pc = "returned",
                       !.lead_id = lead_id,
                       !.trace = @ \o UploadCalls(lead_id, NoItem, outcome),
                       !.response =
                          IF outcome = "ok"
                          THEN Response(200, "Conversion uploaded successfully.")
                          ELSE Response(500, "Something went wrong while persisting the click log.")]]
    /\ UNCHANGED <<now, table, lastClick, clicks>>

\* ---------------------------------------------------------------- matching
\* query, then extract_incoming_lead_id (the arguments of the update_lead
\* call are evaluated after the query has returned)
update_lead_handler(i) ==
    /\ inv[i].pc = "update_lead_handler"
    /\ \E ok \in BOOLEAN :
         LET lead_id == extract_incoming_lead_id(inv[i].event)
             call == Call("store_query", 0, "", NoItem, ok)
         IN  inv' = [inv EXCEPT ![i] =
               IF ~ok \/ lead_id = 0
               THEN RaiseAfter(i, call)
               ELSE [inv[i] EXCEPT !.pc = "update_lead",
                                   !.items = Query(table),
                                   !.lead_id = lead_id,
                                   !.trace = Append(@, call)]]
    /\ UNCHANGED <<now, table, lastClick, clicks>>

\* OrganicUpdate tagging the lead as a paid click
OrganicUpdateAsCpc(i, ok) ==
    Call("crm_update", inv[i].lead_id, "cpc", NoItem, ok)

\* kommo_service.update_lead(lead_id, source="organic")
OrganicUpdate(i, ok) ==
    Call("crm_update", inv[i].lead_id, "organic", NoItem, ok)

\* update_lead, `if not items`: tag the lead organic
update_lead_no_items(i) ==
    /\ inv[i].pc = "update_lead"
    /\ inv[i].items = <<>>
    /\ \E ok \in BOOLEAN :
         inv' = [inv EXCEPT ![i] =
           ReturnAfter(i, OrganicUpdate(i, ok),
             IF ok
             THEN Response(200, "Lead updated with organic source.")
             ELSE Response(500, "Lead with organic source could not be updated."))]
    /\ UNCHANGED <<now, table, lastClick, clicks>>

\* update_lead, the TTL test and the reads of items[0]; when the test fails
\* the function ends without a return statement
update_lead_ttl(i) ==
    /\ inv[i].pc = "update_lead"
    /\ inv[i].items # <<>>
    /\ LET item == inv[i].items[1]
       IN  inv' = [inv EXCEPT ![i] =
             IF ~Unexpired(now, item)
             THEN Return(i, NoneResponse)
             ELSE IF item.gclid = ABSENT \/ item.page_path = ABSENT
                  THEN Raise(i)
                  ELSE [inv[i] EXCEPT !.pc = "update_item"]]
    /\ UNCHANGED <<now, table, lastClick, clicks>>

CpcFailed == Response(500, "Lead with cpc source could not be updated.")

\* click_log_table.update_item(Key = (click, expires_at))
update_item(i) ==
    /\ inv[i].pc = "update_item"
    /\ LET item == inv[i].items[1]
       IN  \E outcome \in {"ok", "RuntimeError", "ClientError"} :
             /\ table' = IF outcome = "ok"
                         THEN UpdateItem(table, item.expires_at)
                         ELSE table
             /\ inv' = [inv EXCEPT ![i] =
                  LET call == Call("store_update", inv[i].lead_id, "", item,
                                   outcome = "ok")
                  IN  CASE outcome = "ok" ->
                             [inv[i] EXCEPT !.pc = "kommo_update_lead",
                                            !.trace = Append(@, call)]
                        [] outcome = "RuntimeError" ->
                             ReturnAfter(i, call, CpcFailed)
                        [] OTHER -> RaiseAfter(i, call)]
    /\ UNCHANGED <<now, lastClick, clicks>>

\* CpcUpdate without the click attributes of the item
CpcUpdateNoClick(i, ok) ==
    Call("crm_update", inv[i].lead_id, "cpc", NoItem, ok)

\* kommo_service.update_lead(source="cpc", gclid, gbraid, page_path)
CpcUpdate(i, ok) ==
    Call("crm_update", inv[i].lead_id, "cpc", inv[i].items[1], ok)

\* kommo_update_lead going on to the upload whether or not the tagging
\* succeeded
kommo_update_lead_unchecked(i) ==
    /\ inv[i].pc = "kommo_update_lead"
    /\ \E ok \in BOOLEAN :
         inv' = [inv EXCEPT ![i] =
           [inv[i] EXCEPT !.pc = "upload_offline_conversion",
                          !.trace = Append(@, CpcUpdate(i, ok))]]
    /\ UNCHANGED <<now, table, lastClick, clicks>>

kommo_update_lead(i) ==
    /\ inv[i].pc = "kommo_update_lead"
    /\ \E ok \in BOOLEAN :
         inv' = [inv EXCEPT ![i] =
           LET call == CpcUpdate(i, ok)
           IN  IF ok
               THEN [inv[i] EXCEPT !.pc = "upload_offline_conversion",
                                   !.trace = Append(@, call)]
               ELSE ReturnAfter(i, call, CpcFailed)]
    /\ UNCHANGED <<now, table, lastClick, clicks>>

\* construct_raw_lead and upload_offline_conversion of the matched lead
upload_offline_conversion(i) ==
    /\ inv[i].pc = "upload_offline_conversion"
    /\ \E outcome \in UploadOutcomes :
         inv' = [inv EXCEPT ![i] =
           [inv[i] EXCEPT
              !.pc = "returned",
              !.trace = @ \o UploadCalls(inv[i].lead_id, inv[i].items[1], outcome),
              !.response =
                 IF outcome = "ok"
                 THEN Response(200, "Lead updated with matched gclid.")
                 ELSE CpcFailed]]
    /\ UNCHANGED <<now, table, lastClick, clicks>>

\* ---------------------------------------------------------------- behaviours
\* the steps of update_lead_handler and update_lead
MatchStep(i) ==
    \/ update_lead_handler(i)
    \/ update_lead_no_items(i)
    \/ update_lead_ttl(i)
    \/ update_item(i)
    \/ kommo_update_lead(i)
    \/ upload_offline_conversion(i)

Step(i) ==
    \/ upload_conversion_adjustment_handler(i)
    \/ upload_conversion_handler(i)
    \/ MatchStep(i)

Environment ==
    \/ Tick
    \/ \E k \in DOMAIN table : Purge(k)
    \/ \E body \in Bodies : click_log_handler(body) /\ UNCHANGED clicks

\* one invocation at a time, of every kind of /update-lead request
Next ==
    \/ Environment
    \/ \E event \in Events : lambda_handler(1, event)
    \/ Step(1)

Spec == Init /\ [][Next]_vars

\* NumProcs requests routed to update_lead_handler, handled concurrently
\* within one tick of the clock
NextRace ==
    \/ \E body \in Bodies : click_log_handler(body) /\ UNCHANGED clicks
    \/ \E i \in Procs : \E event \in MatchEvents :
          inv[i].pc = "idle" /\ lambda_handler(i, event)
    \/ \E i \in Procs : MatchStep(i)

SpecRace == Init /\ [][NextRace]_vars

\* click beacons only, each call entered in the history
NextClicks ==
    \/ Tick
    \/ \E body \in Bodies : LoggedClick(body)

SpecClicks == Init /\ [][NextClicks]_vars

\* ---------------------------------------------------------------- properties
\* the calls of an invocation's trace with a given operation
CallsOf(i, op) == {n \in DOMAIN inv[i].trace : inv[i].trace[n].op = op}
Finished(i) == inv[i].pc \in {"returned", "raised"}
OnMatchedLeadPath(i) == inv[i].path = "MatchedLeadPath"

\* C1: for every click-log entry, at most one update_lead invocation obtains
\* a Matched result, however the invocations interleave: no stored item is
\* claimed (written matched = true on behalf of a lead) more than once.
C1_AtMostOneMatched ==
    \A k \in DOMAIN table : table[k].claims <= 1

\* C2: an invocation on the MatchedLeadPath whose queried entry fails the
\* TTL test ends as NoMatch: it tags the lead "organic" through the CRM,
\* uploads no conversion and answers 200.
FoundExpired(i) ==
    /\ OnMatchedLeadPath(i)
    /\ inv[i].pc = "returned"
    /\ inv[i].items # <<>>
    /\ CallsOf(i, "store_update") = {}
C2_ExpiredIsOrganic ==
    \A i \in Procs :
        FoundExpired(i) =>
            /\ \E n \in CallsOf(i, "crm_update") :
                    inv[i].trace[n].source = "organic"
            /\ CallsOf(i, "ads_upload") = {}
            /\ inv[i].response.statusCode = 200

\* C3: whenever update_lead writes matched = true for an entry, tags a lead
\* "cpc" with it or uploads a conversion for it, the entry has not expired
\* at that moment (now <= expires_at).
C3_NeverUsedExpired ==
    \A i \in Procs : \A n \in DOMAIN inv[i].trace :
        inv[i].trace[n].op \in {"store_update", "crm_update", "ads_upload"}
            => ~inv[i].trace[n].late

\* C4: the matched attribute of the entry stored under a key never goes
\* from true back to false while an entry is stored under that key.
C4_MatchedMonotonic ==
    [][\A k \in DOMAIN table \cap DOMAIN table' :
          table[k].matched => table'[k].matched]_vars

\* C5: after two successful click_log_handler calls with the same body the
\* store holds two entries for that body, each with matched = false.
Succeeded(n) == clicks[n].response.statusCode = 200
EntriesOf(body) ==
    {k \in DOMAIN table : /\ table[k].gclid = body.gclid
                          /\ table[k].gbraid = body.gbraid
                          /\ table[k].page_path = body.page_path
                          /\ ~table[k].matched}
C5_NoDedup ==
    \A m, n \in DOMAIN clicks :
        (m < n /\ Succeeded(m) /\ Succeeded(n) /\ clicks[m].body = clicks[n].body)
            => Cardinality(EntriesOf(clicks[n].body)) >= 2

\* the parsed inputs of an invocation
conversion_type(i) == Upper(inv[i].event.conversion_type)
is_conversion_adjustment(i) == inv[i].event.is_adjustment = "True"
is_manual_import(i) == inv[i].event.is_manual = "True"
Dispatched(i) == inv[i].pc # "idle" /\ conversion_type(i) \in ConversionType

\* the positions and the external calls of each path's handler
PathPositions(path) ==
    {"returned", "raised"} \cup
    CASE path = "AdjustmentPath" -> {"upload_conversion_adjustment_handler"}
      [] path = "MatchedLeadPath" ->
            {"update_lead_handler", "update_lead", "update_item",
             "kommo_update_lead", "upload_offline_conversion"}
      [] OTHER -> {"upload_conversion_handler"}
PathCalls(path) ==
    CASE path = "AdjustmentPath" -> {"ads_adjustment"}
      [] path = "MatchedLeadPath" ->
            {"store_query", "store_update", "crm_update", "crm_read", "ads_upload"}
      [] OTHER -> {"crm_read", "ads_upload"}

\* C6: dispatch is total and deterministic. Every request with a conversion
\* type of the enumeration is on exactly one of the four paths, chosen with
\* the precedence adjustment, then MESSAGE_RECEIVED and manual, then
\* MESSAGE_RECEIVED, then direct upload; and an invocation stays within the
\* handler of its path.
C6_DispatchTotal ==
    \A i \in Procs :
        Dispatched(i) =>
            /\ inv[i].path \in {"AdjustmentPath", "ManualUploadPath",
                                "MatchedLeadPath", "DirectUploadPath"}
            /\ (inv[i].path = "AdjustmentPath") <=> is_conversion_adjustment(i)
            /\ (inv[i].path = "ManualUploadPath") <=>
                 (/\ ~is_conversion_adjustment(i)
                  /\ conversion_type(i) = MESSAGE_RECEIVED
                  /\ is_manual_import(i))
            /\ (inv[i].path = "MatchedLeadPath") <=>
                 (/\ ~is_conversion_adjustment(i)
                  /\ conversion_type(i) = MESSAGE_RECEIVED
                  /\ ~is_manual_import(i))
            /\ (inv[i].path = "DirectUploadPath") <=>
                 (/\ ~is_conversion_adjustment(i)
                  /\ conversion_type(i) # MESSAGE_RECEIVED)
            /\ inv[i].pc \in PathPositions(inv[i].path)
            /\ \A n \in DOMAIN inv[i].trace :
                 inv[i].trace[n].op \in PathCalls(inv[i].path)

\* a manual MESSAGE_RECEIVED import has uploaded its conversion
C6_Witness ==
    \E i \in Procs :
        /\ inv[i].path = "ManualUploadPath"
        /\ inv[i].pc = "returned"
        /\ inv[i].response.statusCode = 200
        /\ CallsOf(i, "ads_upload") # {}

\* C7: an invocation on the MatchedLeadPath running alone obtains the
\* unmatched entry with the greatest created_at whenever an unmatched,
\* unexpired entry exists, however many more recent entries are matched;
\* it finds no entry only when the store holds no unmatched entry.
Unmatched(t) == {k \in DOMAIN t : ~t[k].matched}
MostRecentUnmatched(t) ==
    CHOOSE k \in Unmatched(t) :
        \A j \in Unmatched(t) : t[j].created_at <= t[k].created_at
C7_LastClickPolicy ==
    [][\A i \in Procs :
         (inv[i].pc = "update_lead_handler" /\ inv'[i].pc = "update_lead") =>
            /\ (\E k \in Unmatched(table) : Unexpired(now, table[k])) =>
                  inv'[i].items = <<table[MostRecentUnmatched(table)]>>
            /\ inv'[i].items = <<>> => Unmatched(table) = {}]_vars

\* C8: an invocation with is_adjustment = True, whatever its conversion
\* type and is_manual, makes exactly one AdsPlatform adjustment upload and
\* no other call (no store query or update, no CRM call, no conversion
\* upload), and answers 200 when the upload succeeds.
C8_AdjustmentOnly ==
    \A i \in Procs :
        (Dispatched(i) /\ is_conversion_adjustment(i) /\ Finished(i)) =>
            /\ Len(inv[i].trace) = 1
            /\ inv[i].trace[1].op = "ads_adjustment"
            /\ inv[i].trace[1].ok => inv[i].response.statusCode = 200

\* C9: an invocation on the MatchedLeadPath whose query returns an entry
\* (the most recent, unmatched) that passes the TTL test, and whose calls all
\* succeed, tags the lead "cpc" with exactly that entry's gclid, gbraid and
\* page_path, uploads one conversion for the lead, leaves the entry with
\* matched = true and answers 200.
NoFailure(i) == \A n \in DOMAIN inv[i].trace : inv[i].trace[n].ok
C9_Outcome ==
    \A i \in Procs :
        (/\ OnMatchedLeadPath(i)
         /\ inv[i].pc = "returned"
         /\ inv[i].items # <<>>
         /\ inv[i].response # NoneResponse
         /\ NoFailure(i)) =>
            LET item == inv[i].items[1]
                lead == inv[i].event.add_id
            IN  /\ inv[i].response.statusCode = 200
                /\ Cardinality(CallsOf(i, "crm_update")) = 1
                /\ \A n \in CallsOf(i, "crm_update") :
                     /\ inv[i].trace[n].source = "cpc"
                     /\ inv[i].trace[n].lead_id = lead
                     /\ inv[i].trace[n].gclid = item.gclid
                     /\ inv[i].trace[n].gbraid = item.gbraid
                     /\ inv[i].trace[n].page_path = item.page_path
                /\ Cardinality(CallsOf(i, "ads_upload")) = 1
                /\ \A n \in CallsOf(i, "ads_upload") :
                     inv[i].trace[n].lead_id = lead
                /\ \E n \in CallsOf(i, "store_update") :
                     inv[i].trace[n].key = item.expires_at
C9_Step ==
    \A i \in Procs :
        \* an entry that passes the TTL test is claimed, not dropped
        /\ (/\ inv[i].pc = "update_lead"
            /\ inv'[i] # inv[i]
            /\ inv[i].items # <<>>
            /\ Unexpired(now, inv[i].items[1])) =>
               inv'[i].pc = "update_item"
        \* the claim write leaves the entry with matched = true
        /\ (inv[i].pc = "update_item" /\ inv'[i].pc = "kommo_update_lead") =>
               /\ inv[i].items[1].expires_at \in DOMAIN table'
               /\ table'[inv[i].items[1].expires_at].matched
C9_MatchedLead == []C9_Outcome /\ [][C9_Step]_vars

C9_Witness ==
    \E i \in Procs :
        /\ OnMatchedLeadPath(i)
        /\ inv[i].pc = "returned"
        /\ inv[i].response = Response(200, "Lead updated with matched gclid.")
        /\ inv[i].items # <<>>
        /\ inv[i].items[1].expires_at \in DOMAIN table
        /\ table[inv[i].items[1].expires_at].matched

\* C10: a request whose conversion_type is not a name of the enumeration is
\* rejected before any side effect, whatever is_adjustment and is_manual:
\* the invocation raises with no store, CRM or AdsPlatform call made, and
\* the table is as it was.
Unrecognized(i) ==
    inv[i].pc # "idle" /\ conversion_type(i) \notin ConversionType
C10_Rejected ==
    \A i \in Procs :
        Unrecognized(i) => inv[i].pc = "raised" /\ inv[i].trace = <<>>
C10_Step ==
    \A i \in Procs :
        (inv'[i] # inv[i]
           /\ Upper(inv'[i].event.conversion_type) \notin ConversionType)
            => table' = table
C10_RejectedBeforeEffects == []C10_Rejected /\ [][C10_Step]_vars

C10_Witness ==
    \E i \in Procs :
        /\ Unrecognized(i)
        /\ inv[i].pc = "raised"
        /\ inv[i].event.is_adjustment = "True"
        /\ DOMAIN table # {}

\* C11: a click beacon with neither gclid nor gbraid is answered 400 and
\* leaves the store as it was; a beacon with an identifier whose store write
\* succeeds is answered 200 and the store then holds its entry, with
\* matched = false and expires_at = created_at + TTL, the other entries
\* untouched; a beacon whose write fails changes nothing.
HasIdentifier(body) == body.gclid # None \/ body.gbraid # None
C11_Step ==
    Len(clicks') = Len(clicks) + 1 =>
        LET call == clicks'[Len(clicks')]
            k == IntTimestamp(now) + CLICK_LOG_TTL
        IN  /\ ~HasIdentifier(call.body) =>
                 call.response.statusCode = 400 /\ table' = table
            /\ HasIdentifier(call.body) => call.response.statusCode # 400
            /\ call.response.statusCode # 200 => table' = table
            /\ call.response.statusCode = 200 =>
                 /\ DOMAIN table' = DOMAIN table \cup {k}
                 /\ \A j \in DOMAIN table \ {k} : table'[j] = table[j]
                 /\ table'[k].matched = FALSE
                 /\ table'[k].expires_at = k
                 /\ table'[k].expires_at = table'[k].created_at + CLICK_LOG_TTL
                 /\ table'[k].gclid = call.body.gclid
                 /\ table'[k].gbraid = call.body.gbraid
                 /\ table'[k].page_path = call.body.page_path
C12_FailureIs500 ==
    \A i \in Procs :
        (\E n \in DOMAIN inv[i].trace : ~inv[i].trace[n].ok) =>
            /\ inv[i].pc = "returned"
            /\ inv[i].response.statusCode = 500
            /\ inv[i].response.message # ""

\* C13: on the MatchedLeadPath with a Matched click, a failed CRM source
\* tagging and a failed AdsPlatform conversion upload are both answered 500,
\* with different messages.
CrmTagFailed(i) ==
    \E n \in CallsOf(i, "crm_update") :
        inv[i].trace[n].source = "cpc" /\ ~inv[i].trace[n].ok
AdsUploadFailed(i) ==
    \E n \in CallsOf(i, "ads_upload") : ~inv[i].trace[n].ok
C13_DistinctMessages ==
    \A i, j \in Procs :
        (/\ OnMatchedLeadPath(i) /\ CrmTagFailed(i)
         /\ OnMatchedLeadPath(j) /\ AdsUploadFailed(j)) =>
            /\ inv[i].response.statusCode = 500
            /\ inv[j].response.statusCode = 500
            /\ inv[i].response.message # inv[j].response.message

\* C14: every path acts on the lead id of the payload field prescribed for
\* it: leads[status][0][id] on the AdjustmentPath and the DirectUploadPath,
\* leads[add][0][id] on the ManualUploadPath and the MatchedLeadPath; for a
\* payload with both fields, each call is made for the prescribed id.
PrescribedLead(i) ==
    IF inv[i].path \in {"AdjustmentPath", "DirectUploadPath"}
    THEN inv[i].event.status_id
    ELSE inv[i].event.add_id
C14_PrescribedField ==
    \A i \in Procs : \A n \in DOMAIN inv[i].trace :
        (/\ inv[i].event.add_id # 0
         /\ inv[i].event.status_id # 0
         /\ inv[i].trace[n].op \in {"ads_adjustment", "crm_read", "ads_upload",
                                   "crm_update"})
            => inv[i].trace[n].lead_id = PrescribedLead(i)

\* C15: when the store query returns no entry, the MatchedLeadPath tags the
\* lead "organic" through the CRM, uploads no conversion, writes nothing to
\* the store, and answers 200 when the CRM call succeeds.
C15_Outcome ==
    \A i \in Procs :
        (OnMatchedLeadPath(i) /\ inv[i].pc = "returned" /\ inv[i].items = <<>>) =>
            /\ Len(inv[i].trace) = 2
            /\ inv[i].trace[1].op = "store_query"
            /\ inv[i].trace[2].op = "crm_update"
            /\ inv[i].trace[2].source = "organic"
            /\ inv[i].trace[2].lead_id = inv[i].event.add_id
            /\ inv[i].trace[2].ok => inv[i].response.statusCode = 200
            /\ ~inv[i].trace[2].ok => inv[i].response.statusCode = 500
C15_Step ==
    \A i \in Procs :
        (/\ inv[i].pc = "update_lead"
         /\ inv[i].items = <<>>
         /\ inv'[i] # inv[i]) =>
            inv'[i].pc = "returned" /\ table' = table
C15_NoMatchIsOrganic == []C15_Outcome /\ [][C15_Step]_vars

\* a lead tagged organic and answered 200 after an empty query result
C15_Witness ==
    \E i \in Procs :
        /\ OnMatchedLeadPath(i)
        /\ inv[i].pc = "returned"
        /\ inv[i].items = <<>>
        /\ inv[i].response = Response(200, "Lead updated with organic source.")

\* C16: in an invocation that obtains a Matched click the effects come in
\* the order store write matched = true, CRM tag "cpc", conversion upload:
\* the tag is never made before the store write has succeeded, and the
\* upload never unless the tag of the same invocation succeeded.
OkBefore(i, n, op) ==
    \E m \in CallsOf(i, op) : m < n /\ inv[i].trace[m].ok
C16_Order ==
    \A i \in Procs :
        OnMatchedLeadPath(i) =>
            /\ \A n \in CallsOf(i, "crm_update") :
                 inv[i].trace[n].source = "cpc" => OkBefore(i, n, "store_update")
            /\ \A n \in CallsOf(i, "ads_upload") :
                 \E m \in CallsOf(i, "crm_update") :
                    /\ m < n
                    /\ inv[i].trace[m].source = "cpc"
                    /\ inv[i].trace[m].ok
                    /\ OkBefore(i, m, "store_update")

\* all five calls of a matched lead, in order
C16_Witness ==
    \E i \in Procs :
        /\ Len(inv[i].trace) = 5
        /\ [n \in 1..5 |-> inv[i].trace[n].op] =
             <<"store_query", "store_update", "crm_update", "crm_read",
               "ads_upload">>
        /\ inv[i].trace[5].ok

\* C17: in every reachable state, however click ingestion, match
\* invocations and the store's TTL purge interleave, every entry of the
\* click-log store has a gclid or a gbraid: no entry carries only its key
\* and the matched attribute.
Present(v) == v \notin {None, ABSENT}
C17_EntriesIdentified ==
    \A k \in DOMAIN table :
        Present(table[k].gclid) \/ Present(table[k].gbraid)

\* C18: an invocation on the ManualUploadPath or the DirectUploadPath never
\* queries or updates the click-log store, and none of its steps changes
\* the set of entries or any entry, whether its upload succeeds or fails.
OnUploadPath(r) == r.path \in {"ManualUploadPath", "DirectUploadPath"}
C18_NoStoreCalls ==
    \A i \in Procs :
        OnUploadPath(inv[i]) =>
            CallsOf(i, "store_query") \cup CallsOf(i, "store_update") = {}
C18_Step ==
    \A i \in Procs :
        (inv'[i] # inv[i] /\ OnUploadPath(inv'[i])) => table' = table
C18_BypassMatching == []C18_NoStoreCalls /\ [][C18_Step]_vars

\* a failed upload on one of these paths, with an unmatched entry left in
\* the store
C18_Witness ==
    \E i \in Procs :
        /\ OnUploadPath(inv[i])
        /\ inv[i].pc = "returned"
        /\ inv[i].response.statusCode = 500
        /\ \E n \in CallsOf(i, "ads_upload") : ~inv[i].trace[n].ok
        /\ \E k \in DOMAIN table : ~table[k].matched

\* C19: a step of a MatchedLeadPath invocation creates and deletes no
\* entry, changes no attribute other than matched of any entry, and leaves
\* every entry other than the one the invocation queried unchanged.
Attributes(item) ==
    [page_path |-> item.page_path, gclid |-> item.gclid,
     gbraid |-> item.gbraid, created_at |-> item.created_at,
     expires_at |-> item.expires_at]
C19_Step ==
    \A i \in Procs :
        (inv'[i] # inv[i] /\ inv'[i].path = "MatchedLeadPath") =>
            /\ DOMAIN table' = DOMAIN table
            /\ \A k \in DOMAIN table \cap DOMAIN table' :
                 /\ Attributes(table'[k]) = Attributes(table[k])
                 /\ table'[k] # table[k] =>
                      /\ inv[i].items # <<>>
                      /\ k = inv[i].items[1].expires_at
C19_OnlyMatchedOfOneEntry == [][C19_Step]_vars

\* C20: the claim is not rolled back: when an invocation's write of
\* matched = true succeeded and its CRM tagging or its upload then failed,
\* the invocation answers 500, the entry it wrote stays matched, and no
\* invocation uploads a conversion for that click.
ClaimedThenFailed(i, k) ==
    /\ OnMatchedLeadPath(i)
    /\ Finished(i)
    /\ \E n \in CallsOf(i, "store_update") :
         /\ inv[i].trace[n].ok
         /\ inv[i].trace[n].key = k
         /\ \E m \in DOMAIN inv[i].trace : m > n /\ ~inv[i].trace[m].ok
\* the invocations whose update_item wrote to key k
Claimants(k) ==
    {p \in Procs : \E n \in CallsOf(p, "store_update") :
                      inv[p].trace[n].ok /\ inv[p].trace[n].key = k}
\* every one of those writes went to the item now stored under k
SameEntry(k) ==
    k \in DOMAIN table /\ table[k].claims = Cardinality(Claimants(k))
UploadedFor(p, i) ==
    /\ inv[p].items = inv[i].items
    /\ \E n \in CallsOf(p, "ads_upload") :
         inv[p].trace[n].ok /\ inv[p].trace[n].key = inv[i].items[1].expires_at
C20_ClaimNotRolledBack ==
    \A i \in Procs : \A k \in DOMAIN table :
        (ClaimedThenFailed(i, k) /\ SameEntry(k)) =>
            /\ inv[i].pc = "returned"
            /\ inv[i].response.statusCode = 500
            /\ table[k].matched
            /\ \A p \in Procs : ~UploadedFor(p, i)

====
